---- MODULE Spec2Model ----
(***************************************************************************)
(* A model of the KCIDB URL cache: kcidb.cache.Client (store, map,         *)
(* is_stored, fetch, empty) over a GCS bucket, and the two cloud functions *)
(* that drive it, kcidb_cache_urls and kcidb_cache_redirect.               *)
(*                                                                         *)
(* Strings the code takes apart (URLs, query strings, object names) are    *)
(* sequences of one-character strings; strings it only passes around      *)
(* (header values, methods) are TLA+ strings.                              *)
(***************************************************************************)
EXTENDS Integers, Sequences, FiniteSets, TLC

(***************************************************************************)
(* Bounds and inputs                                                       *)
(***************************************************************************)

\* Client.max_store_size, scaled down (main.py passes 5 * 1024 * 1024).
max_store_size == 1

\* The most lines a Pub/Sub message holds.
MaxLines == 2

\* The function instances sharing the bucket, in the order the platform
\* tries them.
Instances == <<"w1", "w2">>
Procs == {Instances[i] : i \in DOMAIN Instances}

\* Python's None, where the code compares a string-valued thing with it.
None == "None"

\* CACHE_REDIRECT_TTL, in seconds.
CACHE_REDIRECT_TTL == 10

\* URLs: two whose SHA-256 ends in 00, one whose does not, and the empty line.
U_ok == <<"h","t","t","p",":","/","/","h","/","o","k">>
U_dir == <<"h","t","t","p",":","/","/","h","/","i","5","/">>
U_a == <<"h","t","t","p",":","/","/","h","/","a">>
U_empty == <<>>
U_pct == <<"%">>

\* Where the origin's redirects end for U_ok, when it redirects.
U_moved == <<"h","t","t","p",":","/","/","r","/","i","o">>

\* U_ok and U_a as a client of the redirect may send them, with reserved
\* characters percent-encoded: strings like any other to the cache.
Q_ok == <<"h","t","t","p","%","3","A","%","2","F","%","2","f","h","%","2","F","o","k">>
Q_a == <<"h","t","t","p",":","/","/","h","%","2","F","a">>

Urls == {U_ok, U_dir, U_a, U_empty, U_pct, Q_ok, Q_a}

\* The lines a message can hold.
LineUrls == {U_ok, U_dir, U_a, U_empty}

\* Byte values of a body.
ByteVals == {0, 1}

\* All sequences over S of length lo..hi.
SeqsOf(S, lo, hi) == UNION {[1..n -> S] : n \in lo..hi}

\* Bodies the origin can return for a GET: every body within the size bound,
\* and one that is a byte longer.
Bodies ==
  SeqsOf(ByteVals, 1, max_store_size) \cup {[i \in 1..(max_store_size + 1) |-> 0]}

\* Content-Length header values the origin can send: the size bound, one
\* more, and one that is no number.
Lengths == max_store_size..(max_store_size + 1)
DecimalStrings == {ToString(n) : n \in Lengths}
ContentLengths == DecimalStrings \cup {"x"}

ContentTypes == {"text/plain", "text/html"}

StatusCodes == {200, 404}

(***************************************************************************)
(* Pure helpers                                                            *)
(***************************************************************************)

\* A one-entry dict, and dict union.
Dict(k, v) == k :> v

\* dict.get(key): the value, or None.
Get(headers, key) == IF key \in DOMAIN headers THEN headers[key] ELSE None

\* hashlib.sha256(url.encode()).digest() on the model's URLs.
sha256 ==
  (U_ok :> <<248,138,121,50,247,111,177,166,166,119,152,182,209,144,16,181,
             154,148,21,162,28,178,161,213,131,86,160,203,43,158,7,0>>)
  @@ (U_dir :> <<127,48,173,26,185,199,233,54,204,116,244,211,94,199,173,219,
                 231,238,203,142,178,36,125,94,152,238,96,220,8,58,211,0>>)
  @@ (U_a :> <<196,63,162,131,148,107,129,69,87,129,238,102,226,66,158,146,
               41,81,150,27,159,17,236,48,26,218,239,129,243,51,131,94>>)
  @@ (U_empty :> <<227,176,196,66,152,252,28,20,154,251,244,200,153,111,185,36,
                   39,174,65,228,100,155,147,76,164,149,153,27,120,82,184,85>>)
  @@ (U_pct :> <<187,243,241,28,181,180,62,112,2,115,167,141,18,222,85,228,
                 167,234,183,65,237,42,191,19,120,122,77,45,200,50,184,236>>)
  @@ (Q_ok :> <<135,197,128,51,228,149,56,147,133,202,190,25,74,164,242,106,
        201,240,188,146,176,99,32,43,196,151,213,34,213,247,131,86>>)
  @@ (Q_a :> <<79,240,118,148,159,159,212,8,229,167,62,63,7,59,179,118,
        103,166,205,30,172,85,101,6,3,87,147,117,124,202,150,69>>)

HexDigits ==
  <<"0","1","2","3","4","5","6","7","8","9","a","b","c","d","e","f">>

\* hexdigest(): two lowercase hex characters per byte.
RECURSIVE hexdigest(_)
hexdigest(bytes) ==
  IF bytes = <<>> THEN <<>>
  ELSE <<HexDigits[(Head(bytes) \div 16) + 1], HexDigits[(Head(bytes) % 16) + 1]>>
       \o hexdigest(Tail(bytes))

\* str.endswith(suffix).
endswith(s, suffix) ==
  /\ Len(s) >= Len(suffix)
  /\ SubSeq(s, Len(s) - Len(suffix) + 1, Len(s)) = suffix

\* The SHA-256 hex digests of the model's URLs.
HexDigests == [url \in Urls |-> hexdigest(sha256[url])]

\* Client._format_object_name.
_format_object_name(url) == HexDigests[url]

\* int(content_length) succeeds on a decimal string and raises ValueError
\* on any other.
IsDecimal(s) == s \in DecimalStrings
int(s) == CHOOSE n \in Lengths : ToString(n) = s

\* Mutant: the sampling test is gone.
Sampled_Always(object_name) == TRUE

\* The sampling test of store: every 256th URL only.
Sampled(object_name) == endswith(object_name, <<"0", "0">>)

\* Mutant: the size test lets every file through.
ExceedsMaxStoreSize_Never(content_length) == FALSE

\* Mutant: the size test also turns down a file of just max_store_size.
ExceedsMaxStoreSize_AtLeast(content_length) == content_length >= max_store_size

\* The size test of store.
ExceedsMaxStoreSize(content_length) == content_length > max_store_size

(***************************************************************************)
(* State                                                                   *)
(***************************************************************************)

VARIABLES
  bucket,   \* the GCS bucket: object name -> [contents, content_type, content_disposition]
  pc,       \* per invocation: where it stands
  lines,    \* kcidb_cache_urls: pubsub_message.splitlines()
  idx,      \* kcidb_cache_urls: how many lines the loop has handed to store
  called,   \* the URLs store was called with by this invocation, in order
  frame,    \* store's locals: url, content_type, content_length, response,
            \* and the content_disposition set on the blob
  io,       \* what the current store call did so far: its HEADs, GETs and
            \* writes, the Content-Length its HEAD announced (-1: none
            \* read), the 200 response its GET got, and the status codes
            \* of the answers to its HEAD and GET (0: none yet, -1: a
            \* RequestException instead)
  outcome,  \* how the current store call ended
  prev,     \* url and writes of the store call before it in the same batch
  exc,      \* the exception that escaped the invocation, or None
  call,     \* the invocation: the function or Client method, and its arguments
  reply,    \* what it returned: <<value>>, or <<>> for nothing yet
  maps,     \* how often the invocation called Client.map
  auth,     \* what that call of map asked of the credential provider
  todo,     \* empty: the listed blobs still to delete, how many it deleted,
            \* and the names store calls have written since it listed
            \* and before it returned
  max_instances, \* how many invocations the platform runs at a time
  origin,   \* what the origin holds itself to: <<>> for nothing, it answers
            \* each request as it likes, or <<body>>, it answers every HEAD
            \* and GET with 200 and every GET with this body
  max_lines \* how many lines the producer puts in a message at most

vars ==
  <<bucket, pc, lines, idx, called, frame, io, outcome, prev, exc, call, reply,
    maps, auth, todo, max_instances, origin,
                 max_lines>>

\* What an invocation of kcidb_cache_urls leaves alone besides the bucket.
others == <<call, reply, maps, auth, todo, max_instances, origin,
                 max_lines>>

\* What an invocation of the other functions leaves alone.
batch == <<lines, idx, called, frame, io, outcome, prev>>

\* A response of requests.head / requests.get.
Response(status_code, headers, content, url) ==
  [status_code |-> status_code, headers |-> headers, content |-> content, url |-> url]

NoResponse == Response(0, <<>>, <<>>, <<>>)

\* store's locals before it binds them (content_length -1: not bound).
NoFrame ==
  [url |-> <<>>, content_type |-> None, content_length |-> -1,
   response |-> NoResponse, content_disposition |-> None]

NoIo ==
  [heads |-> 0, gets |-> 0, writes |-> 0, probed |-> -1, got |-> NoResponse,
   head_status |-> 0, get_status |-> 0]

NoPrev == [url |-> <<>>, writes |-> 0]

NoTodo == [blobs |-> <<>>, deleted |-> 0, written |-> {}]

\* An invocation: op names the function or method, the rest its arguments
\* (ttl 0: ttl=None).
Call(op, method, query_string, url, ttl) ==
  [op |-> op, method |-> method, query_string |-> query_string, url |-> url,
   ttl |-> ttl]

NoCall == Call(None, None, <<>>, <<>>, 0)

\* google.auth.default() finds no credentials.
NoCredentials == [token |-> None, service_account_email |-> None]

\* What a call of map asked of the credential provider: how often it
\* called google.auth.default() and the credentials that gave, how often
\* it called credentials.refresh() and whether that succeeded, and the
\* access_token it signed with (None: it signed nothing).
Auth(defaults, credentials, refreshes, refreshed, access_token) ==
  [defaults |-> defaults, credentials |-> credentials, refreshes |-> refreshes,
   refreshed |-> refreshed, access_token |-> access_token]

NoAuth == Auth(0, NoCredentials, 0, FALSE, None)

\* What the origin can answer to a HEAD of url.
HeadHeaders ==
  {<<>>} \cup {Dict("Content-Type", t) : t \in ContentTypes}
  \cup {Dict("Content-Length", l) : l \in ContentLengths}
  \cup {Dict("Content-Type", t) @@ Dict("Content-Length", l) :
          t \in ContentTypes, l \in ContentLengths}

\* The bodies an origin can hold itself to: those within the size bound.
SteadyBodies == {b \in Bodies : Len(b) <= max_store_size}

\* The HEAD answers of an origin that holds itself to a body: 200 with a
\* Content-Type and a Content-Length within the size bound.
SteadyHeadHeaders ==
  {Dict("Content-Type", t) @@ Dict("Content-Length", l) :
     t \in ContentTypes, l \in {ToString(n) : n \in Lengths \cap 0..max_store_size}}

HeadResponses(url) ==
  IF origin = <<>>
  THEN {Response(s, h, <<>>, url) : s \in StatusCodes, h \in HeadHeaders}
  ELSE {Response(200, h, <<>>, url) : h \in SteadyHeadHeaders}

\* What the origin can answer to a GET of url: U_ok may have moved.
FinalUrls(url) == IF url = U_ok THEN {U_ok, U_moved} ELSE {url}

GetHeaders ==
  {Dict("Content-Type", t) : t \in ContentTypes}
  \cup {Dict("Content-Type", t) @@ Dict("Content-Disposition", "inline") :
          t \in ContentTypes}

GetResponses(url) ==
  IF origin = <<>>
  THEN {Response(s, h, b, f) :
          s \in StatusCodes, h \in GetHeaders, b \in Bodies, f \in FinalUrls(url)}
  ELSE {Response(200, h, origin[1], f) : h \in GetHeaders, f \in FinalUrls(url)}

Start ==
  /\ bucket = <<>>
  /\ pc = [p \in Procs |-> "idle"]
  /\ lines = [p \in Procs |-> <<>>]
  /\ idx = [p \in Procs |-> 0]
  /\ called = [p \in Procs |-> <<>>]
  /\ frame = [p \in Procs |-> NoFrame]
  /\ io = [p \in Procs |-> NoIo]
  /\ outcome = [p \in Procs |-> None]
  /\ prev = [p \in Procs |-> NoPrev]
  /\ exc = [p \in Procs |-> None]
  /\ call = [p \in Procs |-> NoCall]
  /\ reply = [p \in Procs |-> <<>>]
  /\ maps = [p \in Procs |-> 0]
  /\ auth = [p \in Procs |-> NoAuth]
  /\ todo = [p \in Procs |-> NoTodo]

\* Invocations one after the other.
Init == Start /\ max_instances = 1 /\ origin = <<>> /\ max_lines = MaxLines

\* Invocations side by side.
ConcInit ==
  /\ Start
  /\ max_instances = Cardinality(Procs)
  /\ origin = <<>>
  /\ max_lines = MaxLines

\* Invocations side by side, each for a message of one line, with an
\* origin that answers every request with 200 and every GET with the same
\* body.
SameContentInit ==
  /\ Start
  /\ max_instances = Cardinality(Procs)
  /\ origin \in {<<b>> : b \in SteadyBodies}
  /\ max_lines = 1

\* The same, with an origin whose one body is as long as the size bound
\* lets it be.
FullBodyInit ==
  /\ Start
  /\ max_instances = Cardinality(Procs)
  /\ origin = <<[i \in 1..max_store_size |-> 0]>>
  /\ max_lines = 1

\* The platform starts an invocation on the first idle instance while
\* fewer than max_instances run.
CanStart(p) ==
  /\ pc[p] = "idle"
  /\ Cardinality({q \in Procs : pc[q] # "idle"}) < max_instances
  /\ \A i, j \in DOMAIN Instances :
       i < j /\ Instances[j] = p => pc[Instances[i]] # "idle"

(***************************************************************************)
(* Client._extract_content_disposition                                     *)
(***************************************************************************)

\* The index of the first element of s that is in set cs, or Len(s) + 1.
RECURSIVE Find(_, _, _)
Find(s, cs, i) ==
  IF i > Len(s) \/ s[i] \in cs THEN i ELSE Find(s, cs, i + 1)

\* The index of the last "/" of s, or 0.
RECURSIVE RFindSlash(_, _)
RFindSlash(s, i) ==
  IF i = 0 \/ s[i] = "/" THEN i ELSE RFindSlash(s, i - 1)

\* urllib.parse.urlparse(url).path: what follows the scheme and the
\* //netloc, up to a ? or a #.
urlparse_path(url) ==
  LET colon == Find(url, {":"}, 1)
      rest == IF colon <= Len(url) THEN SubSeq(url, colon + 1, Len(url)) ELSE url
      hasNetloc == Len(rest) >= 2 /\ SubSeq(rest, 1, 2) = <<"/", "/">>
      afterNetloc ==
        IF hasNetloc
        THEN SubSeq(rest, Find(rest, {"/", "?", "#"}, 3), Len(rest))
        ELSE rest
  IN SubSeq(afterNetloc, 1, Find(afterNetloc, {"?", "#"}, 1) - 1)

\* Mutant: the path is not split.
rsplit_last_Whole(path) == path

\* path.rsplit('/', 1)[-1].
rsplit_last(path) == SubSeq(path, RFindSlash(path, Len(path)) + 1, Len(path))

\* Header(original_filename, "utf-8").encode() of a short name of letters
\* and digits: an RFC 2047 encoded word.
HeaderEncode(name) == <<"=?utf-8?q?">> \o name \o <<"?=">>

_extract_content_disposition(response) ==
  LET content_disposition == Get(response.headers, "Content-Disposition")
      original_filename == rsplit_last(urlparse_path(response.url))
  IN IF content_disposition # None
     THEN <<content_disposition>>
     ELSE IF original_filename # <<>>
          THEN <<"attachment; filename=\"">> \o HeaderEncode(original_filename)
               \o <<"\"">>
          ELSE <<"attachment">>

(***************************************************************************)
(* The bucket                                                              *)
(***************************************************************************)

\* Mutant: the existence check never finds the object.
exists_Never(name) == FALSE

\* blob.exists().
exists(name) == name \in DOMAIN bucket

\* Mutant: the upload cuts the contents to max_store_size bytes.
Blob_Truncated(contents, content_type, content_disposition) ==
  [contents |->
     SubSeq(contents, 1, IF Len(contents) > max_store_size
                         THEN max_store_size ELSE Len(contents)),
   content_type |-> content_type,
   content_disposition |-> content_disposition]

\* blob.upload_from_string(contents, content_type=...), with the
\* content_disposition set on the blob before.
Blob(contents, content_type, content_disposition) ==
  [contents |-> contents, content_type |-> content_type,
   content_disposition |-> content_disposition]

\* Mutant: an upload to an object that is there adds to its contents.
upload_from_string_Appends(name, contents, content_type, content_disposition) ==
  [n \in DOMAIN bucket \cup {name} |->
     IF n = name
     THEN Blob((IF name \in DOMAIN bucket THEN bucket[name].contents ELSE <<>>)
               \o contents, content_type, content_disposition)
     ELSE bucket[n]]

upload_from_string(name, contents, content_type, content_disposition) ==
  [n \in DOMAIN bucket \cup {name} |->
     IF n = name THEN Blob(contents, content_type, content_disposition)
     ELSE bucket[n]]

(***************************************************************************)
(* kcidb_cache_urls and Client.store                                       *)
(***************************************************************************)

\* The messages: up to MaxLines lines.
Messages == SeqsOf(LineUrls, 0, MaxLines)

\* An invocation of kcidb_cache_urls starts: the message is decoded and
\* split into lines.
kcidb_cache_urls(p) ==
  /\ CanStart(p)
  /\ \E message \in Messages :
       /\ Len(message) <= max_lines
       /\ lines' = [lines EXCEPT ![p] = message]
       /\ call' = [call EXCEPT ![p] =
                     Call("kcidb_cache_urls", None, <<>>, <<>>, 0)]
       /\ pc' = [pc EXCEPT ![p] = IF message = <<>> THEN "done" ELSE "loop"]
  /\ idx' = [idx EXCEPT ![p] = 0]
  /\ UNCHANGED <<bucket, called, frame, io, outcome, prev, exc, reply, maps, auth,
                 todo, max_instances, origin,
                 max_lines>>

\* store returns to the loop of kcidb_cache_urls, which has handed it n
\* lines: store's locals are gone, and after the last line
\* kcidb_cache_urls returns too.
Returns(p, how, n) ==
  /\ frame' = [frame EXCEPT ![p] = NoFrame]
  /\ outcome' = [outcome EXCEPT ![p] = how]
  /\ pc' = [pc EXCEPT ![p] = IF n = Len(lines[p]) THEN "done" ELSE "loop"]
  /\ exc' = exc

\* An exception leaves store, and with it kcidb_cache_urls.
Raises(p, what) ==
  /\ frame' = [frame EXCEPT ![p] = NoFrame]
  /\ outcome' = [outcome EXCEPT ![p] = "Raised"]
  /\ pc' = [pc EXCEPT ![p] = "done"]
  /\ exc' = [exc EXCEPT ![p] = what]

\* The loop takes the next line and calls store: the object name, the
\* sampling test and the existence check.
store_begin(p) ==
  /\ pc[p] = "loop"
  /\ LET url == lines[p][idx[p] + 1]
         object_name == _format_object_name(url)
     IN /\ idx' = [idx EXCEPT ![p] = idx[p] + 1]
        /\ called' = [called EXCEPT ![p] = Append(called[p], url)]
        /\ io' = [io EXCEPT ![p] = NoIo]
        /\ prev' = [prev EXCEPT ![p] =
                      IF idx[p] = 0 THEN NoPrev
                      ELSE [url |-> lines[p][idx[p]], writes |-> io[p].writes]]
        /\ IF ~Sampled(object_name)
           THEN Returns(p, "SkippedSampling", idx[p] + 1)
           ELSE IF exists(object_name)
                THEN Returns(p, "SkippedExisting", idx[p] + 1)
                ELSE /\ frame' = [frame EXCEPT ![p] = [NoFrame EXCEPT !.url = url]]
                     /\ pc' = [pc EXCEPT ![p] = "head"]
                     /\ outcome' = [outcome EXCEPT ![p] = None]
                     /\ exc' = exc
  /\ UNCHANGED <<bucket, lines, others>>

\* requests.head and what store does with its answer.
HeadAnswer(p, response) ==
  /\ io' = [io EXCEPT
              ![p].heads = @ + 1,
              ![p].head_status = response.status_code,
              ![p].probed =
                 IF IsDecimal(Get(response.headers, "Content-Length"))
                 THEN int(response.headers["Content-Length"])
                 ELSE @]
  /\ IF response.status_code # 200
     THEN Returns(p, "FailedHead", idx[p])
     ELSE IF "Content-Type" \notin DOMAIN response.headers
     THEN Raises(p, "KeyError")
     ELSE LET content_type == response.headers["Content-Type"]
              content_length == Get(response.headers, "Content-Length")
          IN IF content_length = None
             THEN Returns(p, "NoContentLength", idx[p])
             ELSE IF ~IsDecimal(content_length)
             THEN Raises(p, "ValueError")
             ELSE IF ExceedsMaxStoreSize(int(content_length))
             THEN Returns(p, "SkippedTooLarge", idx[p])
             ELSE /\ frame' = [frame EXCEPT
                                 ![p].response = response,
                                 ![p].content_type = content_type,
                                 ![p].content_length = int(content_length)]
                  /\ pc' = [pc EXCEPT ![p] = "get"]
                  /\ UNCHANGED <<outcome, exc>>

store_head(p) ==
  /\ pc[p] = "head"
  /\ \/ \E response \in HeadResponses(frame[p].url) : HeadAnswer(p, response)
     \/ \* requests.exceptions.RequestException, caught
        /\ origin = <<>>
        /\ io' = [io EXCEPT ![p].heads = @ + 1, ![p].head_status = -1]
        /\ Returns(p, "HeadError", idx[p])
  /\ UNCHANGED <<bucket, lines, idx, called, prev, others>>

\* Mutant: the status code of the GET's answer is not looked at.
GetAnswer_AnyStatus(p, response) ==
  /\ io' = [io EXCEPT ![p].gets = @ + 1, ![p].got = response,
                      ![p].get_status = response.status_code]
  /\ frame' = [frame EXCEPT
                 ![p].response = response,
                 ![p].content_disposition = _extract_content_disposition(response)]
  /\ pc' = [pc EXCEPT ![p] = "upload"]
  /\ UNCHANGED <<outcome, exc>>

\* requests.get and what store does with its answer, up to setting the
\* blob's content_disposition.
GetAnswer(p, response) ==
  /\ IF response.status_code # 200
     THEN /\ io' = [io EXCEPT ![p].gets = @ + 1,
                              ![p].get_status = response.status_code]
          /\ Returns(p, "FailedGet", idx[p])
     ELSE /\ io' = [io EXCEPT ![p].gets = @ + 1, ![p].got = response,
                              ![p].get_status = response.status_code]
          /\ frame' = [frame EXCEPT
                         ![p].response = response,
                         ![p].content_disposition =
                            _extract_content_disposition(response)]
          /\ pc' = [pc EXCEPT ![p] = "upload"]
          /\ UNCHANGED <<outcome, exc>>

store_get(p) ==
  /\ pc[p] = "get"
  /\ \/ \E response \in GetResponses(frame[p].url) : GetAnswer(p, response)
     \/ \* requests.exceptions.RequestException, caught
        /\ origin = <<>>
        /\ io' = [io EXCEPT ![p].gets = @ + 1, ![p].get_status = -1]
        /\ Returns(p, "GetError", idx[p])
  /\ UNCHANGED <<bucket, lines, idx, called, prev, others>>

\* blob.upload_from_string and the return; the calls of empty that are
\* at their deletes take note of the name.
store_upload(p) ==
  /\ pc[p] = "upload"
  /\ bucket' = upload_from_string(_format_object_name(frame[p].url),
                                  frame[p].response.content,
                                  frame[p].content_type,
                                  frame[p].content_disposition)
  /\ io' = [io EXCEPT ![p].writes = @ + 1]
  /\ todo' = [q \in Procs |->
                IF pc[q] = "empty"
                THEN [todo[q] EXCEPT
                        !.written = @ \cup {_format_object_name(frame[p].url)}]
                ELSE todo[q]]
  /\ Returns(p, "Stored", idx[p])
  /\ UNCHANGED <<lines, idx, called, prev, call, reply, maps, auth,
                 max_instances, origin, max_lines>>

\* The function instance is free for its next invocation.
Finish(p) ==
  /\ pc[p] = "done"
  /\ pc' = [pc EXCEPT ![p] = "idle"]
  /\ lines' = [lines EXCEPT ![p] = <<>>]
  /\ idx' = [idx EXCEPT ![p] = 0]
  /\ called' = [called EXCEPT ![p] = <<>>]
  /\ frame' = [frame EXCEPT ![p] = NoFrame]
  /\ io' = [io EXCEPT ![p] = NoIo]
  /\ outcome' = [outcome EXCEPT ![p] = None]
  /\ prev' = [prev EXCEPT ![p] = NoPrev]
  /\ exc' = [exc EXCEPT ![p] = None]
  /\ call' = [call EXCEPT ![p] = NoCall]
  /\ reply' = [reply EXCEPT ![p] = <<>>]
  /\ maps' = [maps EXCEPT ![p] = 0]
  /\ auth' = [auth EXCEPT ![p] = NoAuth]
  /\ todo' = [todo EXCEPT ![p] = NoTodo]
  /\ UNCHANGED <<bucket, max_instances, origin,
                 max_lines>>

(***************************************************************************)
(* Client.is_stored, Client.fetch, Client.map                              *)
(***************************************************************************)

\* CACHE_BUCKET_NAME of the deployment.
bucket_name == "kcidb-cache"

\* Client.is_stored.
is_stored(url) == exists(_format_object_name(url))

\* Client.fetch: <<bytes>>, or <<>> for None.
fetch(url) ==
  IF exists(_format_object_name(url))
  THEN <<bucket[_format_object_name(url)].contents>>
  ELSE <<>>

\* Mutant: the address is made of the URL, not of its object name.
_format_public_url_OfUrl(url) ==
  <<"https://storage.googleapis.com/", bucket_name, "/">> \o url

\* Client._format_public_url.
_format_public_url(url) ==
  <<"https://storage.googleapis.com/", bucket_name, "/">>
  \o _format_object_name(url)

\* What google.auth.default()[0] can be: credentials without a token yet,
\* with a token that is still good, or with one that has expired.
DefaultCredentials ==
  {[token |-> t, service_account_email |-> "cache@kcidb.iam"] :
     t \in {None, "live-token", "expired-token"}}

\* What the credential provider does during one call of map: the
\* credentials it hands out, and whether a refresh succeeds.
Providers ==
  {[credentials |-> c, refreshes |-> r] :
     c \in DefaultCredentials \cup {NoCredentials}, r \in BOOLEAN}

\* Mutant: the signed address is the durable one, with no lifetime.
generate_signed_url_Public(name, expiration, service_account_email, access_token) ==
  <<"https://storage.googleapis.com/", bucket_name, "/">> \o name

\* blob.generate_signed_url(version="v4", method="GET", ...): the address
\* of the object with its lifetime, the signing identity, and a signature
\* made with access_token.
generate_signed_url(name, expiration, service_account_email, access_token) ==
  <<"https://storage.googleapis.com/", bucket_name, "/">> \o name
  \o <<"?X-Goog-Expires=", ToString(expiration),
       "&X-Goog-Credential=", service_account_email,
       "&X-Goog-Signature=", access_token>>

\* Mutant: the exception is lost and the call ends with nothing.
Ends_Lost(exception, value) == [exc |-> None, value |-> value]

\* What a call ends in: the exception it raises (or None) and the value it
\* returns, <<value>> or <<>> for None.
Ends(exception, value) == [exc |-> exception, value |-> value]

\* Mutant: map swallows the error and returns what it has.
Maps_Swallowed(exception, value, asked) ==
  [exc |-> None, value |-> value, auth |-> asked]

\* What a call of map ends in, with what it asked of the credential
\* provider on the way.
Maps(exception, value, asked) ==
  [exc |-> exception, value |-> value, auth |-> asked]

\* Client.map (ttl 0: ttl=None).
map(url, ttl, provider) ==
  LET object_name == _format_object_name(url)
      credentials == provider.credentials
  IN IF exists(object_name)
     THEN IF ttl = 0
          THEN Maps(None, <<_format_public_url(url)>>, NoAuth)
          ELSE IF credentials = NoCredentials
          THEN Maps("DefaultCredentialsError", <<>>,
                    Auth(1, NoCredentials, 0, FALSE, None))
          ELSE IF credentials.token = None /\ ~provider.refreshes
          THEN Maps("RefreshError", <<>>, Auth(1, credentials, 1, FALSE, None))
          ELSE LET refreshes == IF credentials.token = None THEN 1 ELSE 0
                   access_token == IF credentials.token = None THEN "fresh-token"
                                   ELSE credentials.token
               IN Maps(None,
                       <<generate_signed_url(
                           object_name, ttl, credentials.service_account_email,
                           access_token)>>,
                       Auth(1, credentials, refreshes, refreshes = 1,
                            access_token))
     ELSE Maps(None, <<>>, NoAuth)

\* The URLs the callers of the Client's methods pass.
ClientUrls == {U_ok, U_dir, U_a}

\* Mutant: the method drops the object of the URL it was asked about.
Answers_Dropping(p, c, end, mapped, asked) ==
  /\ call' = [call EXCEPT ![p] = c]
  /\ reply' = [reply EXCEPT ![p] = IF end.exc = None THEN <<end.value>> ELSE <<>>]
  /\ exc' = [exc EXCEPT ![p] = end.exc]
  /\ maps' = [maps EXCEPT ![p] = mapped]
  /\ auth' = [auth EXCEPT ![p] = asked]
  /\ pc' = [pc EXCEPT ![p] = "done"]
  /\ bucket' = [n \in DOMAIN bucket \ {_format_object_name(c.url)} |-> bucket[n]]
  /\ UNCHANGED <<batch, todo, max_instances, origin, max_lines>>

\* An invocation of a Client method other than store, as a whole.
Answers(p, c, end, mapped, asked) ==
  /\ call' = [call EXCEPT ![p] = c]
  /\ reply' = [reply EXCEPT ![p] = IF end.exc = None THEN <<end.value>> ELSE <<>>]
  /\ exc' = [exc EXCEPT ![p] = end.exc]
  /\ maps' = [maps EXCEPT ![p] = mapped]
  /\ auth' = [auth EXCEPT ![p] = asked]
  /\ pc' = [pc EXCEPT ![p] = "done"]
  /\ UNCHANGED <<bucket, batch, todo, max_instances, origin,
                 max_lines>>

call_is_stored(p) ==
  /\ CanStart(p)
  /\ \E url \in ClientUrls :
       Answers(p, Call("is_stored", None, <<>>, url, 0),
               Ends(None, is_stored(url)), 0, NoAuth)

call_fetch(p) ==
  /\ CanStart(p)
  /\ \E url \in ClientUrls :
       Answers(p, Call("fetch", None, <<>>, url, 0), Ends(None, fetch(url)), 0,
               NoAuth)

call_map(p) ==
  /\ CanStart(p)
  /\ \E url \in ClientUrls, ttl \in {0, CACHE_REDIRECT_TTL},
        provider \in Providers :
       LET end == map(url, ttl, provider)
       IN Answers(p, Call("map", None, <<>>, url, ttl),
                  Ends(end.exc, end.value), 1, end.auth)

(***************************************************************************)
(* Client.empty                                                            *)
(***************************************************************************)

\* The value of a lowercase hex digit.
HexValue(c) == CHOOSE i \in 0..15 : HexDigits[i + 1] = c

\* Object names in the order the bucket lists them.
RECURSIVE LexLess(_, _)
LexLess(a, b) ==
  IF a = <<>> THEN b # <<>>
  ELSE IF b = <<>> THEN FALSE
  ELSE IF Head(a) = Head(b) THEN LexLess(Tail(a), Tail(b))
  ELSE HexValue(Head(a)) < HexValue(Head(b))

\* bucket.list_blobs(): the names in the bucket, in order.
RECURSIVE Listed(_)
Listed(names) ==
  IF names = {} THEN <<>>
  ELSE LET first == CHOOSE n \in names : \A m \in names \ {n} : LexLess(n, m)
       IN <<first>> \o Listed(names \ {first})

\* Mutant: the listing stops after its first name.
list_blobs_FirstOnly ==
  IF bucket = <<>> THEN <<>> ELSE SubSeq(Listed(DOMAIN bucket), 1, 1)

list_blobs == Listed(DOMAIN bucket)

\* empty is called and lists the bucket.
empty_list(p) ==
  /\ CanStart(p)
  /\ call' = [call EXCEPT ![p] = Call("empty", None, <<>>, <<>>, 0)]
  /\ todo' = [todo EXCEPT ![p] = [blobs |-> list_blobs, deleted |-> 0,
                                  written |-> {}]]
  /\ pc' = [pc EXCEPT ![p] = IF list_blobs = <<>> THEN "done" ELSE "empty"]
  /\ UNCHANGED <<bucket, batch, exc, reply, maps, auth, max_instances, origin,
                 max_lines>>

\* Mutant: empty returns after its first delete.
empty_delete_Stops(p) ==
  /\ pc[p] = "empty"
  /\ bucket' = [n \in DOMAIN bucket \ {Head(todo[p].blobs)} |-> bucket[n]]
  /\ todo' = [todo EXCEPT ![p].blobs = <<>>, ![p].deleted = @ + 1]
  /\ pc' = [pc EXCEPT ![p] = "done"]
  /\ UNCHANGED <<batch, exc, call, reply, maps, auth, max_instances, origin,
                 max_lines>>

\* blob.delete() of the next listed blob: NotFound when it is gone.
empty_delete(p) ==
  /\ pc[p] = "empty"
  /\ LET name == Head(todo[p].blobs)
     IN IF exists(name)
        THEN /\ bucket' = [n \in DOMAIN bucket \ {name} |-> bucket[n]]
             /\ todo' = [todo EXCEPT ![p].blobs = Tail(@), ![p].deleted = @ + 1]
             /\ pc' = [pc EXCEPT ![p] =
                         IF Tail(todo[p].blobs) = <<>> THEN "done" ELSE "empty"]
             /\ exc' = exc
        ELSE /\ bucket' = bucket
             /\ todo' = todo
             /\ pc' = [pc EXCEPT ![p] = "done"]
             /\ exc' = [exc EXCEPT ![p] = "NotFound"]
  /\ UNCHANGED <<batch, call, reply, maps, auth, max_instances, origin,
                 max_lines>>

(***************************************************************************)
(* kcidb_cache_redirect                                                    *)
(***************************************************************************)

\* request.query_string values: empty, a URL as it is, a URL with its
\* reserved characters percent-encoded, a lone %, and a byte above 0x7F.
Q_latin1 == <<"0xE9">>

QueryStrings == {<<>>, U_ok, Q_ok, U_dir, Q_a, U_pct, Q_latin1}

Methods == {"GET", "POST"}

\* bytes.decode("ascii") fails on a byte above 0x7F.
IsAscii(bytes) == \A i \in 1..Len(bytes) : bytes[i] # "0xE9"

\* The characters of the escapes the query strings use, by code.
Chr == (58 :> ":") @@ (47 :> "/") @@ (37 :> "%")

UpperHexDigits ==
  <<"0","1","2","3","4","5","6","7","8","9","A","B","C","D","E","F">>

IsHexDigit(c) ==
  \E i \in 1..16 : HexDigits[i] = c \/ UpperHexDigits[i] = c

HexDigitValue(c) ==
  (CHOOSE i \in 1..16 : HexDigits[i] = c \/ UpperHexDigits[i] = c) - 1

\* Mutant: the query string is taken as it is.
unquote_Raw(string) == string

\* urllib.parse.unquote: %XX becomes the character with that code, and a
\* % that no two hex digits follow stays.
RECURSIVE unquote(_)
unquote(string) ==
  IF string = <<>> THEN <<>>
  ELSE IF /\ Head(string) = "%"
          /\ Len(string) >= 3
          /\ IsHexDigit(string[2])
          /\ IsHexDigit(string[3])
       THEN <<Chr[16 * HexDigitValue(string[2]) + HexDigitValue(string[3])]>>
            \o unquote(SubSeq(string, 4, Len(string)))
       ELSE <<Head(string)>> \o unquote(Tail(string))

\* The tuple kcidb_cache_redirect returns; the body as its words.
Reply(response_body, status, headers) ==
  [body |-> response_body, status |-> status, headers |-> headers]

\* Mutant: a GET without a URL is answered 404.
BadRequest_NotFound ==
  Reply(<<"Provide", "a", "valid", "URL", "to", "query", "from", "the",
          "caching", "system.">>, 404, <<>>)

\* The answer to a GET without a URL.
BadRequest ==
  Reply(<<"Provide", "a", "valid", "URL", "to", "query", "from", "the",
          "caching", "system.">>, 400, <<>>)

\* Mutant: the 405 names no allowed method.
MethodNotAllowed_NoAllow == Reply(<<"Method", "not", "allowed.">>, 405, <<>>)

\* The answer to any method but GET.
MethodNotAllowed ==
  Reply(<<"Method", "not", "allowed.">>, 405, Dict("Allow", "GET"))

\* The body of kcidb_cache_redirect: what it ends in, and how often it
\* called map.
Redirect(method, query_string, provider) ==
  IF method = "GET"
  THEN IF ~IsAscii(query_string)
       THEN [end |-> Ends("UnicodeDecodeError", <<>>), mapped |-> 0,
             asked |-> NoAuth]
       ELSE LET url_to_fetch == unquote(query_string)
                cache == map(url_to_fetch, CACHE_REDIRECT_TTL, provider)
            IN IF url_to_fetch = <<>>
               THEN [end |-> Ends(None, BadRequest), mapped |-> 0,
                     asked |-> NoAuth]
               ELSE IF cache.exc # None
               THEN [end |-> Ends(cache.exc, <<>>), mapped |-> 1,
                     asked |-> cache.auth]
               ELSE IF cache.value # <<>> /\ cache.value[1] # <<>>
               THEN [end |-> Ends(None, Reply(<<>>, 302,
                                              Dict("Location", cache.value[1]))),
                     mapped |-> 1, asked |-> cache.auth]
               ELSE [end |-> Ends(None, Reply(<<>>, 302,
                                              Dict("Location", url_to_fetch))),
                     mapped |-> 1, asked |-> cache.auth]
  ELSE [end |-> Ends(None, MethodNotAllowed), mapped |-> 0, asked |-> NoAuth]

\* An invocation of kcidb_cache_redirect, as a whole.
kcidb_cache_redirect(p) ==
  /\ CanStart(p)
  /\ \E method \in Methods, query_string \in QueryStrings,
        provider \in Providers :
       LET r == Redirect(method, query_string, provider)
       IN Answers(p, Call("kcidb_cache_redirect", method, query_string, <<>>, 0),
                  r.end, r.mapped, r.asked)

(***************************************************************************)
(* Specifications                                                          *)
(***************************************************************************)

Next ==
  \E p \in Procs :
    \/ kcidb_cache_urls(p)
    \/ store_begin(p)
    \/ store_head(p)
    \/ store_get(p)
    \/ store_upload(p)
    \/ call_is_stored(p)
    \/ call_fetch(p)
    \/ call_map(p)
    \/ empty_list(p)
    \/ empty_delete(p)
    \/ kcidb_cache_redirect(p)
    \/ Finish(p)

\* Invocations one after the other.
Spec == Init /\ [][Next]_vars

\* Invocations interleaved at their requests to the origin and the bucket.
ConcSpec == ConcInit /\ [][Next]_vars

\* The invocations of kcidb_cache_urls and their store calls only.
StoreNext ==
  \E p \in Procs :
    \/ kcidb_cache_urls(p)
    \/ store_begin(p)
    \/ store_head(p)
    \/ store_get(p)
    \/ store_upload(p)
    \/ Finish(p)

\* Batches side by side, interleaved at their requests to the origin and
\* the bucket, with an origin that always answers the same.
SameContentSpec == SameContentInit /\ [][StoreNext]_vars

\* The invocations of kcidb_cache_urls, their store calls, and the calls
\* of empty.
StoreEmptyNext ==
  \E p \in Procs :
    \/ kcidb_cache_urls(p)
    \/ store_begin(p)
    \/ store_head(p)
    \/ store_get(p)
    \/ store_upload(p)
    \/ empty_list(p)
    \/ empty_delete(p)
    \/ Finish(p)

\* Batches and calls of empty side by side, interleaved at their requests
\* to the origin and the bucket, with an origin that always answers the
\* same.
StoreEmptySpec == SameContentInit /\ [][StoreEmptyNext]_vars

\* Every function and every Client method side by side, interleaved at
\* their requests to the origin and the bucket, with an origin that always
\* answers the same.
AnyCallSpec == FullBodyInit /\ [][Next]_vars

(***************************************************************************)
(* The claims                                                              *)
(***************************************************************************)

\* The invocations of kcidb_cache_urls that have called store at least once.
Storing == {p \in Procs : call[p].op = "kcidb_cache_urls" /\ idx[p] >= 1}

\* The URL of the store call p is in, or came out of last.
StoreUrl(p) == lines[p][idx[p]]

\* The store call of p has returned or raised.
StoreOver(p) == pc[p] \in {"loop", "done"}

\* The invocations of kcidb_cache_redirect, all of them over.
Redirected == {p \in Procs : call[p].op = "kcidb_cache_redirect"}

\* C1: store never raises to its caller, whatever the origin answers.
C1_StoreNeverRaises ==
  \A p \in Procs :
    call[p].op = "kcidb_cache_urls" => outcome[p] # "Raised" /\ exc[p] = None

NonEmptyLine(line) == line # <<>>

\* C2: when kcidb_cache_urls is over, store has been called for every
\* non-empty line of the message, in the order of the message, also after
\* a failure while storing an earlier line.
C2_EveryLineStored ==
  \A p \in Procs :
    call[p].op = "kcidb_cache_urls" /\ pc[p] = "done"
      => SelectSeq(called[p], NonEmptyLine) = SelectSeq(lines[p], NonEmptyLine)

\* C3: a store call whose HEAD announced a Content-Length above
\* max_store_size issues no GET, writes nothing and leaves no object for
\* its URL; one whose HEAD announced exactly max_store_size is not turned
\* down for its size and, unless the HEAD failed otherwise (its status,
\* its Content-Type), goes on to the GET.
C3_SizeBound ==
  \A p \in Storing :
    /\ io[p].probed > max_store_size
         => /\ StoreOver(p)
            /\ outcome[p] \in {"SkippedTooLarge", "FailedHead", "Raised"}
            /\ io[p].gets = 0
            /\ io[p].writes = 0
            /\ ~is_stored(StoreUrl(p))
    /\ io[p].probed = max_store_size
         => /\ outcome[p] # "SkippedTooLarge"
            /\ \/ outcome[p] \in {"FailedHead", "Raised"}
               \/ pc[p] = "get"
               \/ io[p].gets = 1

C3_Witness ==
  \E p \in Storing :
    /\ io[p].probed > max_store_size
    /\ outcome[p] = "SkippedTooLarge"
    /\ io[p].heads = 1

\* C4: no object in the bucket is longer than max_store_size.
C4_StoredWithinMaxStoreSize ==
  \A name \in DOMAIN bucket : Len(bucket[name].contents) <= max_store_size

\* C5: when a store call wrote its object and the next store call of the
\* batch is for the same URL, that second call ends at the existence
\* check with no HEAD, no GET and no write: one write for the two calls.
C5_Idempotence ==
  \A p \in Storing :
    idx[p] >= 2 /\ prev[p].url = StoreUrl(p) /\ prev[p].writes = 1
      => /\ StoreOver(p)
         /\ outcome[p] = "SkippedExisting"
         /\ io[p].heads = 0
         /\ io[p].gets = 0
         /\ prev[p].writes + io[p].writes = 1

C5_Witness ==
  \E p \in Storing :
    /\ idx[p] >= 2
    /\ prev[p].url = StoreUrl(p)
    /\ prev[p].writes = 1
    /\ outcome[p] = "SkippedExisting"

\* C6: after a store call that wrote, fetch of its URL returns the bytes
\* its GET returned, and is_stored of its URL is true.
C6_RoundTrip ==
  \A p \in Storing :
    StoreOver(p) /\ outcome[p] = "Stored"
      => /\ fetch(StoreUrl(p)) = <<io[p].got.content>>
         /\ is_stored(StoreUrl(p))

C6_Witness ==
  \E p \in Storing :
    /\ StoreOver(p)
    /\ outcome[p] = "Stored"
    /\ io[p].got.content # <<>>
    /\ fetch(StoreUrl(p)) = <<io[p].got.content>>

\* C7: a store call for a URL whose SHA-256 does not end in the byte 00
\* is over at once as skipped by the sampling, with no HEAD, no GET and
\* no write, whatever the bucket holds and however often it is repeated.
C7_Sampling ==
  \A p \in Storing :
    sha256[StoreUrl(p)][32] # 0
      => /\ StoreOver(p)
         /\ outcome[p] = "SkippedSampling"
         /\ io[p] = NoIo

C7_Witness ==
  \E p \in Storing :
    /\ idx[p] >= 2
    /\ StoreUrl(p) = U_a
    /\ prev[p].url = U_a
    /\ outcome[p] = "SkippedSampling"
    /\ bucket # <<>>

\* C8: a request whose method is not GET is answered 405 with the header
\* Allow: GET, whatever its query string, and map is not called.
C8_MethodNotAllowed ==
  \A p \in Redirected :
    call[p].method # "GET"
      => /\ exc[p] = None
         /\ reply[p][1].status = 405
         /\ "Allow" \in DOMAIN reply[p][1].headers
         /\ reply[p][1].headers["Allow"] = "GET"
         /\ maps[p] = 0

C8_Witness ==
  \E p \in Redirected :
    /\ call[p].method = "POST"
    /\ call[p].query_string = Q_ok
    /\ is_stored(U_ok)
    /\ reply[p][1].status = 405

\* The words of part appear in body, one after the other.
Mentions(body, part) ==
  \E i \in 1..Len(body) :
    i + Len(part) - 1 <= Len(body) /\ SubSeq(body, i, i + Len(part) - 1) = part

\* C9: a GET whose query string is empty is answered 400 with a body that
\* mentions "valid URL", without a Location header, and map is not called.
C9_BadRequest ==
  \A p \in Redirected :
    call[p].method = "GET" /\ call[p].query_string = <<>>
      => /\ exc[p] = None
         /\ reply[p][1].status = 400
         /\ Mentions(reply[p][1].body, <<"valid", "URL">>)
         /\ "Location" \notin DOMAIN reply[p][1].headers
         /\ maps[p] = 0

C9_Witness ==
  \E p \in Redirected :
    /\ call[p].method = "GET"
    /\ call[p].query_string = <<>>
    /\ reply[p][1].status = 400
    /\ bucket # <<>>

\* What each query string of the model stands for, percent-decoded.
Decoded ==
  (U_ok :> U_ok) @@ (Q_ok :> U_ok) @@ (U_dir :> U_dir) @@ (Q_a :> U_a)
  @@ (U_pct :> U_pct)

\* C10: a GET for a URL, given percent-encoded or not, that has no object
\* in the cache is answered 302 with the decoded URL as its Location.
C10_PassThrough ==
  \A p \in Redirected :
    /\ call[p].method = "GET"
    /\ call[p].query_string \in DOMAIN Decoded
    /\ ~is_stored(Decoded[call[p].query_string])
    => /\ exc[p] = None
       /\ reply[p][1].status = 302
       /\ reply[p][1].headers = Dict("Location", Decoded[call[p].query_string])

C10_Witness ==
  \E p \in Redirected :
    /\ call[p].method = "GET"
    /\ call[p].query_string = Q_a
    /\ reply[p][1].status = 302
    /\ reply[p][1].headers["Location"] = U_a
    /\ bucket # <<>>

\* The address of the object of url, signed by the service account with
\* access_token and good for CACHE_REDIRECT_TTL seconds.
SignedFor(url, access_token) ==
  <<"https://storage.googleapis.com/", "kcidb-cache", "/">>
  \o hexdigest(sha256[url])
  \o <<"?X-Goog-Expires=", "10", "&X-Goog-Credential=", "cache@kcidb.iam",
       "&X-Goog-Signature=", access_token>>

\* The GET requests for a URL, given percent-encoded or not, that has an
\* object in the cache.
RedirectedCached ==
  {p \in Redirected :
     /\ call[p].method = "GET"
     /\ call[p].query_string \in DOMAIN Decoded
     /\ is_stored(Decoded[call[p].query_string])}

\* C11: a GET for a URL that has an object in the cache, when map returns
\* to it, is answered 302 with the address map returned as its Location:
\* the address of the URL's object signed for 10 seconds with the token map
\* signed with, and not the URL itself; map was called once.
C11_RedirectToCache ==
  \A p \in RedirectedCached :
    exc[p] = None
      => /\ reply[p][1].status = 302
         /\ reply[p][1].headers =
              Dict("Location",
                   SignedFor(Decoded[call[p].query_string], auth[p].access_token))
         /\ reply[p][1].headers["Location"] # Decoded[call[p].query_string]
         /\ maps[p] = 1

C11_Witness ==
  \E p \in RedirectedCached :
    /\ call[p].query_string = Q_ok
    /\ exc[p] = None
    /\ reply[p][1].status = 302
    /\ reply[p][1].headers["Location"] = SignedFor(U_ok, "live-token")

\* reply is a response with one of the statuses.
Responds(p, statuses) ==
  /\ reply[p] # <<>>
  /\ reply[p][1] # <<>>
  /\ reply[p][1].status \in statuses

\* C12 as claimed: every request ends with a response 302, 400 or 405.
C12_AlwaysResponds ==
  \A p \in Redirected : exc[p] = None /\ Responds(p, {302, 400, 405})

\* C12, amended: every request ends, with a response 302, 400 or 405 or
\* with an exception raised to the framework and no response of its own:
\* the error of map, for a GET of a cached URL when the credentials are
\* missing or their refresh fails, or UnicodeDecodeError, for a GET whose
\* query string is not ASCII.
C12_RespondsOrRaises ==
  \A p \in Redirected :
    /\ pc[p] = "done"
    /\ \/ exc[p] = None /\ Responds(p, {302, 400, 405})
       \/ /\ exc[p] \in {"DefaultCredentialsError", "RefreshError"}
          /\ reply[p] = <<>>
          /\ p \in RedirectedCached
          /\ maps[p] = 1
       \/ /\ exc[p] = "UnicodeDecodeError"
          /\ reply[p] = <<>>
          /\ call[p].method = "GET"
          /\ ~IsAscii(call[p].query_string)
          /\ maps[p] = 0

C12_Witness ==
  \E p \in Redirected :
    /\ pc[p] = "done"
    /\ exc[p] = "RefreshError"
    /\ reply[p] = <<>>
    /\ auth[p].refreshes = 1

\* The calls of map without a ttl, all of them over.
MappedDurably == {p \in Procs : call[p].op = "map" /\ call[p].ttl = 0}

\* The durable address of the object of url: the bucket name and the
\* object name, nothing else.
DurableFor(url) ==
  <<"https://storage.googleapis.com/", "kcidb-cache", "/">>
  \o hexdigest(sha256[url])

\* C13: map(url) without a ttl returns None when the URL has no object,
\* and otherwise the durable address made of the bucket name and the
\* object name only, the same whenever it is called and whatever else the
\* bucket holds; it raises nothing and asks nothing of the credential
\* provider.
C13_DurableAddress ==
  \A p \in MappedDurably :
    /\ exc[p] = None
    /\ auth[p] = NoAuth
    /\ reply[p] = IF is_stored(call[p].url) THEN << <<DurableFor(call[p].url)>> >>
                  ELSE << <<>> >>

C13_Witness ==
  \E p \in MappedDurably :
    /\ call[p].url = U_ok
    /\ is_stored(U_ok)
    /\ is_stored(U_dir)
    /\ reply[p] = << <<DurableFor(U_ok)>> >>
    /\ auth[p].defaults = 0

\* The calls of map with a ttl for a URL that has an object, from a caller
\* of the Client or from kcidb_cache_redirect, all of them over.
MappedSigned ==
  {p \in Procs : call[p].op = "map" /\ call[p].ttl # 0 /\ is_stored(call[p].url)}
  \cup RedirectedCached

\* C14: map with a ttl, for a URL that has an object, refreshes the
\* credentials whenever their token is absent or expired, and signs no
\* address with an absent or an expired token.
C14_RefreshesStaleToken ==
  \A p \in MappedSigned :
    auth[p].defaults = 1 /\ auth[p].credentials # NoCredentials
      => /\ auth[p].credentials.token \in {None, "expired-token"}
              => auth[p].refreshes = 1
         /\ exc[p] = None => auth[p].access_token \notin {None, "expired-token"}

\* The credential provider failed the call of map that p made: it had no
\* credentials, or the refresh that map asked for failed.
CredentialsFailed(p) ==
  \/ auth[p].defaults = 1 /\ auth[p].credentials = NoCredentials
  \/ auth[p].refreshes = 1 /\ ~auth[p].refreshed

\* C15: when map is called with a ttl for a URL that has an object and the
\* credentials are missing or their refresh fails, the error leaves map:
\* map returns neither None nor an address, and kcidb_cache_redirect,
\* which the error leaves too, answers no 302.
C15_SigningFailurePropagates ==
  \A p \in MappedSigned :
    CredentialsFailed(p)
      => /\ exc[p] \in {"DefaultCredentialsError", "RefreshError"}
         /\ reply[p] = <<>>

C15_Witness ==
  \E p \in RedirectedCached :
    /\ CredentialsFailed(p)
    /\ auth[p].credentials = NoCredentials
    /\ exc[p] = "DefaultCredentialsError"
    /\ reply[p] = <<>>

\* How many objects the bucket lists under name.
ObjectsUnder(name) ==
  Cardinality({i \in DOMAIN list_blobs : list_blobs[i] = name})

\* Two store calls side by side for the same URL, one the sampling lets
\* through, both over.
StoredTwice(p, q) ==
  /\ p # q
  /\ p \in Storing /\ q \in Storing
  /\ StoreUrl(p) = StoreUrl(q)
  /\ sha256[StoreUrl(p)][32] = 0
  /\ StoreOver(p) /\ StoreOver(q)

\* C16: with an origin that answers every request with 200 and the same
\* body within the size bound, when two store calls running side by side
\* for the same URL are over, however their steps interleaved and also
\* when both passed the existence check and both wrote, the bucket holds
\* one object under the URL's name, and its contents are the origin's body.
C16_ConcurrentStores ==
  \A p, q \in Procs :
    StoredTwice(p, q)
      => /\ ObjectsUnder(_format_object_name(StoreUrl(p))) = 1
         /\ fetch(StoreUrl(p)) = <<origin[1]>>

C16_Witness ==
  \E p, q \in Procs :
    /\ StoredTwice(p, q)
    /\ io[p].writes = 1
    /\ io[q].writes = 1
    /\ io[p].got.headers # io[q].got.headers
    /\ fetch(StoreUrl(p)) = <<origin[1]>>

\* The calls of empty that are over.
Emptied == {p \in Procs : call[p].op = "empty" /\ pc[p] = "done"}

\* C17: when a call of empty that ran alone is over, it has raised
\* nothing and the bucket holds no object: for every URL is_stored is
\* false, fetch returns None, and map returns None with a ttl and without,
\* whatever the credential provider does.
C17_EmptyRemovesAll ==
  \A p \in Emptied :
    /\ exc[p] = None
    /\ bucket = <<>>
    /\ \A url \in Urls :
         /\ ~is_stored(url)
         /\ fetch(url) = <<>>
         /\ \A ttl \in {0, CACHE_REDIRECT_TTL}, provider \in Providers :
              map(url, ttl, provider) = Maps(None, <<>>, NoAuth)

C17_Witness ==
  \E p \in Emptied :
    /\ todo[p].deleted = 2
    /\ bucket = <<>>
    /\ fetch(U_ok) = <<>>

\* The operations that only read the bucket.
ReadOps == {"is_stored", "fetch", "map", "kcidb_cache_redirect"}

\* A step of a call that only reads leaves the bucket and the requests to
\* the origin as they were.
ReadsOnly ==
  \A p \in Procs :
    (pc[p] = "idle" /\ call'[p].op \in ReadOps)
      => (bucket' = bucket /\ io' = io)

\* A step that changes the bucket is the upload of a store call, which adds
\* or replaces the object of its URL, or a delete of empty, which removes
\* the next object of its listing; every other object stays as it was.
OnlyStoreWritesOnlyEmptyDeletes ==
  (bucket' # bucket)
    => \E p \in Procs :
         \/ /\ call[p].op = "kcidb_cache_urls"
            /\ pc[p] = "upload"
            /\ io'[p].writes = io[p].writes + 1
            /\ DOMAIN bucket' = DOMAIN bucket \cup {_format_object_name(frame[p].url)}
            /\ \A n \in DOMAIN bucket \ {_format_object_name(frame[p].url)} :
                 bucket'[n] = bucket[n]
         \/ /\ call[p].op = "empty"
            /\ pc[p] = "empty"
            /\ DOMAIN bucket' = DOMAIN bucket \ {Head(todo[p].blobs)}
            /\ \A n \in DOMAIN bucket' : bucket'[n] = bucket[n]

\* C18: a call of is_stored, fetch or map, map from kcidb_cache_redirect
\* included, sends the origin no HEAD and no GET and leaves the bucket,
\* its objects and their contents, as it was; the bucket changes only by
\* the upload of a store call and by a delete of empty.
C18_ReadOnly == [][ReadsOnly /\ OnlyStoreWritesOnlyEmptyDeletes]_vars

C18_Witness ==
  \E p \in Procs :
    /\ call[p].op = "fetch"
    /\ call[p].url = U_ok
    /\ is_stored(U_ok)
    /\ reply[p] = << <<bucket[_format_object_name(U_ok)].contents>> >>
    /\ io[p] = NoIo

\* What a store call has done so far: no more than one HEAD, one GET and
\* one write, no GET without the HEAD and no write without the GET.
Bounded(p) ==
  /\ io[p].heads \in 0..1
  /\ io[p].gets \in 0..io[p].heads
  /\ io[p].writes \in 0..io[p].gets

\* A step of a store call that sends the HEAD is its first request; one
\* that sends the GET comes after its HEAD, answered 200 with a
\* Content-Length of at most max_store_size; one that writes comes after
\* its GET, answered 200.
Ordered(p) ==
  /\ (io'[p].heads > io[p].heads) => (pc[p] = "head" /\ io[p] = NoIo)
  /\ (io'[p].gets > io[p].gets)
       => /\ pc[p] = "get"
          /\ io[p].heads = 1 /\ io[p].gets = 0
          /\ frame[p].response.status_code = 200
          /\ "Content-Length" \in DOMAIN frame[p].response.headers
          /\ io[p].probed = frame[p].content_length
          /\ io[p].probed \in 0..max_store_size
  /\ (io'[p].writes > io[p].writes)
       => /\ pc[p] = "upload"
          /\ io[p].gets = 1 /\ io[p].writes = 0
          /\ frame[p].response = io[p].got
          /\ io[p].got.status_code = 200

\* C19: a store call sends at most one HEAD and one GET and writes at most
\* one object; it sends the GET only after its HEAD was answered 200 with
\* a Content-Length not above max_store_size, and writes only after its
\* GET was answered 200.
C19_OrderedAndBounded ==
  /\ [](\A p \in Procs : Bounded(p))
  /\ [][\A p \in Procs : Ordered(p)]_vars

C19_Witness ==
  \E p \in Storing :
    /\ StoreOver(p)
    /\ io[p].heads = 1
    /\ io[p].gets = 1
    /\ io[p].writes = 1
    /\ io[p].probed = max_store_size

\* How a store call ends at a per-item failure.
PerItemFailures ==
  {"HeadError", "FailedHead", "NoContentLength", "SkippedTooLarge", "GetError",
   "FailedGet"}

\* A store call that is over: a HEAD or a GET that a RequestException or a
\* status other than 200 ended makes it end at that failure; at any
\* per-item failure it has raised nothing, the loop of its caller goes
\* on, it has written nothing and there is no object for its URL.
FailedCleanly(p) ==
  StoreOver(p)
    => /\ io[p].head_status \notin {0, 200}
            => outcome[p] \in {"HeadError", "FailedHead"}
       /\ io[p].get_status \notin {0, 200}
            => outcome[p] \in {"GetError", "FailedGet"}
       /\ outcome[p] = "NoContentLength" => io[p].probed = -1
       /\ outcome[p] = "SkippedTooLarge" => io[p].probed > max_store_size
       /\ outcome[p] \in PerItemFailures
            => /\ exc[p] = None
               /\ pc[p] = "done" => idx[p] = Len(lines[p])
               /\ io[p].writes = 0
               /\ ~is_stored(StoreUrl(p))

\* The steps of a store call up to its end at a per-item failure leave
\* the bucket as it was.
FailingLeavesBucket(p) ==
  /\ (pc[p] = "loop" /\ idx'[p] # idx[p]) => bucket' = bucket
  /\ (pc[p] \in {"head", "get"} /\ pc'[p] # pc[p]) => bucket' = bucket

KeepsObjects ==
  \A name \in DOMAIN bucket :
    IF name \in DOMAIN bucket'
    THEN bucket'[name] = bucket[name]
    ELSE \E p \in Procs :
           /\ call[p].op = "empty"
           /\ pc[p] = "empty"
           /\ Head(todo[p].blobs) = name

\* C21: with invocations one after the other, an object that is in the
\* bucket keeps its contents, its content type and its content
\* disposition through every later call of store, is_stored, fetch and
\* map, whatever the origin answers then; it goes only by a delete of
\* empty.
C21_Immutable == [][KeepsObjects]_vars

C21_Witness ==
  \E p \in Storing :
    /\ idx[p] = 1
    /\ StoreOver(p)
    /\ outcome[p] = "SkippedExisting"
    /\ io[p] = NoIo
    /\ is_stored(StoreUrl(p))

\* The step in which a call of empty returns.
EmptyReturns(p) ==
  /\ pc[p] # "done"
  /\ pc'[p] = "done"
  /\ call'[p].op = "empty"
  /\ exc'[p] = None

\* C22: with store calls running beside a call of empty, the bucket can
\* hold objects when empty returns, and those it holds then were all
\* written by a store call after empty listed the bucket, each under its
\* name once; empty has deleted every object it listed.
C22_EmptyStoreRace ==
  /\ [](\A name \in DOMAIN bucket : ObjectsUnder(name) = 1)
  /\ [][\A p \in Procs :
          EmptyReturns(p)
            => /\ DOMAIN bucket' \subseteq todo'[p].written
               /\ todo'[p].blobs = <<>>]_vars

C22_Witness ==
  \E p \in Emptied :
    /\ exc[p] = None
    /\ todo[p].deleted = 2
    /\ _format_object_name(U_dir) \in todo[p].written
    /\ bucket # <<>>
    /\ ObjectsUnder(_format_object_name(U_dir)) = 1

\* The object a store call that wrote left for its URL.
StoredBlob(p) == bucket[_format_object_name(StoreUrl(p))]

\* The store calls that are over and wrote their object.
Wrote == {p \in Storing : StoreOver(p) /\ outcome[p] = "Stored"}

\* C23: the object a store call wrote has the Content-Type of the answer
\* to its GET, whose bytes it holds, also when the answer to its HEAD
\* named another.
C23_ContentTypeOfGet ==
  \A p \in Wrote :
    StoredBlob(p).content_type = io[p].got.headers["Content-Type"]

\* The last path segment of the URLs the origin serves.
LastSegment ==
  (U_ok :> <<"o","k">>) @@ (U_dir :> <<>>) @@ (U_moved :> <<"i","o">>)

\* The content disposition that names a file, and the bare one.
Attachment(name) ==
  IF name = <<>> THEN <<"attachment">>
  ELSE <<"attachment; filename=\"", "=?utf-8?q?">> \o name \o <<"?=", "\"">>

\* The content disposition of the object a store call wrote: the
\* Content-Disposition of the answer to its GET when it has one, and
\* else made of the last path segment of url.
DispositionFrom(p, url) ==
  StoredBlob(p).content_disposition =
    IF "Content-Disposition" \in DOMAIN io[p].got.headers
    THEN <<io[p].got.headers["Content-Disposition"]>>
    ELSE Attachment(LastSegment[url])

\* C24 as claimed: the content disposition of a stored object is the
\* Content-Disposition of the answer to the GET when it has one, and else
\* attachment with the last path segment of the URL passed to store as
\* the file name, or bare when that segment is empty, also when the GET
\* was redirected.
C24_DispositionOfStoreUrl ==
  \A p \in Wrote : DispositionFrom(p, StoreUrl(p))

\* C24, amended: the file name is the last path segment of the URL the
\* GET ended at after its redirects, response.url, which is the URL
\* passed to store when there was no redirect.
C24_DispositionOfFinalUrl ==
  \A p \in Wrote : DispositionFrom(p, io[p].got.url)

C24_Witness ==
  \E p \in Wrote :
    /\ StoreUrl(p) = U_ok
    /\ io[p].got.url = U_moved
    /\ "Content-Disposition" \notin DOMAIN io[p].got.headers
    /\ StoredBlob(p).content_disposition = Attachment(<<"i","o">>)

\* The elements of a sequence.
Range(seq) == {seq[i] : i \in DOMAIN seq}

\* Every object name is the SHA-256 hex digest, 64 characters that end in
\* 00, of a URL that can be passed to store.
KeysAreSampledDigests ==
  \A name \in DOMAIN bucket :
    /\ Len(name) = 64
    /\ SubSeq(name, 63, 64) = <<"0", "0">>
    /\ \E url \in LineUrls : name = HexDigests[url]

\* A step that adds a name to the bucket is the upload of a store call,
\* and the name is the SHA-256 hex digest of the URL that call was passed.
KeysComeFromStore ==
  \A name \in DOMAIN bucket' \ DOMAIN bucket :
    \E p \in Procs :
      /\ pc[p] = "upload"
      /\ frame[p].url = lines[p][idx[p]]
      /\ frame[p].url \in Range(called[p])
      /\ name = HexDigests[frame[p].url]

\* C25: from an empty bucket, through every sequence and interleaving of
\* calls of store, fetch, is_stored, map and empty, the name of every
\* object in the bucket is the SHA-256 hex digest of a URL passed to store
\* and ends in 00.
C25_KeysSampled ==
  /\ []KeysAreSampledDigests
  /\ [][KeysComeFromStore]_vars

C25_Witness ==
  \E p, q \in Procs :
    /\ call[p].op = "empty"
    /\ pc[p] = "empty"
    /\ todo[p].deleted = 1
    /\ q \in Wrote
    /\ DOMAIN bucket = {HexDigests[U_ok], HexDigests[U_dir]}

====
